---------------------------- MODULE Spec2Model ----------------------------
(***************************************************************************)
(* NY Tax Tipping Point Calculator: the computation engine (lib/model.ts), *)
(* the embedded dataset (lib/data.ts), the defaults (lib/defaults.ts) and  *)
(* the page controller that holds the model input.                         *)
(*                                                                         *)
(* JavaScript numbers are modelled as decimal floating-point values with   *)
(* an eight-digit mantissa, NaN and the two infinities: every arithmetic   *)
(* operation rounds its result to eight significant digits, as an IEEE     *)
(* double rounds to fifty-three bits.  Negative zero is not distinguished  *)
(* from zero.                                                              *)
(***************************************************************************)
EXTENDS Integers, Sequences, FiniteSets, TLC

(***************************************************************************)
(* Numbers                                                                 *)
(***************************************************************************)
NaN == [k |-> "nan", m |-> 0, e |-> 0]
PosInf == [k |-> "inf", m |-> 1, e |-> 0]
NegInf == [k |-> "inf", m |-> -1, e |-> 0]
Zero == [k |-> "fin", m |-> 0, e |-> 0]

IsNaN(a) == a.k = "nan"
IsInf(a) == a.k = "inf"
IsFin(a) == a.k = "fin"

AbsInt(i) == IF i < 0 THEN -i ELSE i
SgnInt(i) == IF i < 0 THEN -1 ELSE IF i > 0 THEN 1 ELSE 0
MaxInt(i, j) == IF i >= j THEN i ELSE j
MinInt(i, j) == IF i <= j THEN i ELSE j

RECURSIVE Pow10(_)
Pow10(n) == IF n <= 0 THEN 1 ELSE 10 * Pow10(n - 1)

\* number of decimal digits of a natural number (0 has none)
RECURSIVE NDigits(_)
NDigits(n) == IF n <= 0 THEN 0 ELSE 1 + NDigits(n \div 10)

\* drop the trailing zeros of a positive mantissa
RECURSIVE Strip(_, _)
Strip(m, e) == IF m % 10 = 0 THEN Strip(m \div 10, e + 1) ELSE <<m, e>>

\* a mantissa of d digits rounded to eight digits, trailing zeros dropped
RoundMantissa(m, e, d) ==
  IF d > 8 THEN Strip((m + 5 * Pow10(d - 9)) \div Pow10(d - 8), e + d - 8)
  ELSE Strip(m, e)

\* the value s * st[1] * 10^st[2] (st[1] of nd digits): a magnitude beyond
\* Number.MAX_VALUE becomes an infinity and one below Number.MIN_VALUE zero
InRange(s, st, nd) ==
  IF st[2] + nd > 309 \/ (st[2] + nd = 309 /\ st[1] * Pow10(8 - nd) >= 17976932)
  THEN [k |-> "inf", m |-> s, e |-> 0]
  ELSE IF st[2] + nd < -323 THEN Zero
  ELSE [k |-> "fin", m |-> s * st[1], e |-> st[2]]

Rounded(s, st) == InRange(s, st, NDigits(st[1]))

\* the double nearest to s * m * 10^e (s = 1 or -1, m >= 0)
Fin(s, m, e) ==
  IF m = 0 THEN Zero ELSE Rounded(s, RoundMantissa(m, e, NDigits(m)))

\* the number i (an integer literal)
N(i) == Fin(IF i < 0 THEN -1 ELSE 1, AbsInt(i), 0)
\* the number m * 10^e (a decimal literal such as 0.025 = Dec(25, -3))
Dec(m, e) == Fin(IF m < 0 THEN -1 ELSE 1, AbsInt(m), e)
One == N(1)

Neg(a) == [a EXCEPT !.m = -a.m]

\* s * (hi * 10^8 + rest) * 10^e, hi of d digits, cut to nine digits and rounded
MulJoin(s, hi, rest, e, d) ==
  IF hi = 0 THEN Fin(s, rest, e)
  ELSE Fin(s, (hi * Pow10(9 - d)) + (rest \div Pow10(d - 1)), e + d - 1)

\* the exact product of two mantissas, by halves of four digits
MulHalves(s, h1, l1, h2, l2, e) ==
  LET low == l1 * l2
      mid == (h1 * l2) + (l1 * h2) + (low \div 10000)
      hi == (h1 * h2) + (mid \div 10000)
  IN MulJoin(s, hi, ((mid % 10000) * 10000) + (low % 10000), e, NDigits(hi))

\* a * b
Mul(a, b) ==
  IF IsNaN(a) \/ IsNaN(b) THEN NaN
  ELSE IF IsInf(a) \/ IsInf(b)
       THEN IF a.m = 0 \/ b.m = 0 THEN NaN
            ELSE [k |-> "inf", m |-> SgnInt(a.m) * SgnInt(b.m), e |-> 0]
  ELSE IF a.m = 0 \/ b.m = 0 THEN Zero
  ELSE MulHalves(SgnInt(a.m) * SgnInt(b.m),
                 AbsInt(a.m) \div 10000, AbsInt(a.m) % 10000,
                 AbsInt(b.m) \div 10000, AbsInt(b.m) % 10000, a.e + b.e)

\* long division of mantissas: quotient digits until nine are produced or
\* the division is exact
RECURSIVE LongDiv(_, _, _, _)
LongDiv(q, r, mb, e) ==
  IF r = 0 \/ q >= 100000000 THEN RoundMantissa(q, e, NDigits(q))
  ELSE LongDiv((q * 10) + ((r * 10) \div mb), (r * 10) % mb, mb, e - 1)

\* a / b
Div(a, b) ==
  IF IsNaN(a) \/ IsNaN(b) THEN NaN
  ELSE IF IsInf(a)
       THEN IF IsInf(b) THEN NaN
            ELSE [k |-> "inf", m |-> a.m * (IF b.m < 0 THEN -1 ELSE 1), e |-> 0]
  ELSE IF IsInf(b) THEN Zero
  ELSE IF b.m = 0
       THEN IF a.m = 0 THEN NaN
            ELSE [k |-> "inf", m |-> SgnInt(a.m), e |-> 0]
  ELSE IF a.m = 0 THEN Zero
  ELSE Rounded(SgnInt(a.m) * SgnInt(b.m),
               LongDiv(AbsInt(a.m) \div AbsInt(b.m), AbsInt(a.m) % AbsInt(b.m),
                       AbsInt(b.m), a.e - b.e))

\* the magnitude m * 10^e expressed in units of 10^E (at most nine digits)
Scaled(m, e, E) ==
  IF e >= E THEN m * Pow10(e - E)
  ELSE IF E - e > 9 THEN 0
  ELSE m \div Pow10(E - e)

\* the sum of two finite non-zero numbers, both in units of 10^E
AddSigned(sum, E) == Fin(IF sum < 0 THEN -1 ELSE 1, AbsInt(sum), E)

AddAligned(a, b, E) ==
  AddSigned((SgnInt(a.m) * Scaled(AbsInt(a.m), a.e, E))
              + (SgnInt(b.m) * Scaled(AbsInt(b.m), b.e, E)), E)

\* a + b
Add(a, b) ==
  IF IsNaN(a) \/ IsNaN(b) THEN NaN
  ELSE IF IsInf(a)
       THEN IF IsInf(b) /\ a.m # b.m THEN NaN ELSE a
  ELSE IF IsInf(b) THEN b
  ELSE IF a.m = 0 THEN b
  ELSE IF b.m = 0 THEN a
  ELSE AddAligned(a, b, MaxInt(MinInt(a.e, b.e),
                               MaxInt(a.e + NDigits(AbsInt(a.m)),
                                      b.e + NDigits(AbsInt(b.m))) - 9))

\* a - b
Sub(a, b) == Add(a, Neg(b))

\* -1, 0, 1 as a < b, a = b, a > b; 2 when unordered (a NaN operand)
Cmp(a, b) ==
  IF IsNaN(a) \/ IsNaN(b) THEN 2
  ELSE IF a = b THEN 0
  ELSE IF IsInf(a) THEN a.m
  ELSE IF IsInf(b) THEN -b.m
  ELSE SgnInt(Sub(a, b).m)

Lt(a, b) == Cmp(a, b) = -1
Le(a, b) == Cmp(a, b) \in {-1, 0}
Gt(a, b) == Cmp(a, b) = 1
Ge(a, b) == Cmp(a, b) \in {0, 1}

\* Math.min and Math.max: NaN when an operand is NaN
MathMin(a, b) == IF IsNaN(a) \/ IsNaN(b) THEN NaN ELSE IF Le(a, b) THEN a ELSE b
MathMax(a, b) == IF IsNaN(a) \/ IsNaN(b) THEN NaN ELSE IF Ge(a, b) THEN a ELSE b
\* Math.abs
MathAbs(a) == [a EXCEPT !.m = AbsInt(a.m)]

\* the largest integer <= a, for a finite a of magnitude below 10^9
Floor(a) ==
  IF a.e >= 0 THEN a.m * Pow10(a.e)
  ELSE IF -a.e > 9 THEN (IF a.m < 0 THEN -1 ELSE 0)
  ELSE a.m \div Pow10(-a.e)

\* e^f for 0 <= f < 1: the Taylor series 1 + f(1 + f/2(1 + f/3(...))) of
\* thirteen terms, summed from the innermost term outwards (acc is the value
\* of the part within the j-th parenthesis)
RECURSIVE ExpFrac(_, _, _)
ExpFrac(f, j, acc) ==
  IF j = 0 \/ IsNaN(acc) THEN acc
  ELSE ExpFrac(f, j - 1, Add(One, Mul(Div(f, N(j)), acc)))

\* e^n for a natural number n, by repeated squaring
RECURSIVE ExpInt(_)
ExpInt(n) ==
  IF n = 0 THEN One
  ELSE LET h == ExpInt(n \div 2)
           hh == Mul(h, h)
       IN IF n % 2 = 0 THEN hh ELSE Mul(hh, Dec(27182818, -7))

\* Math.exp
MathExp(y) ==
  IF IsNaN(y) THEN NaN
  ELSE IF IsInf(y) THEN (IF y.m > 0 THEN PosInf ELSE Zero)
  ELSE IF Gt(y, N(710)) THEN PosInf
  ELSE IF Lt(y, N(-746)) THEN Zero
  ELSE LET n == Floor(y)
           f == Sub(y, N(n))
       IN IF n >= 0 THEN Mul(ExpInt(n), ExpFrac(f, 13, One))
          ELSE Div(ExpFrac(f, 13, One), ExpInt(-n))


(***************************************************************************)
(* Reference data and defaults                                             *)
(***************************************************************************)
\* the value null of the offset fields
Null == [k |-> "null", m |-> 0, e |-> 0]

Cohort(lo, hi, filers, agi, nys, nyc, share) ==
  [agiMin |-> lo, agiMax |-> hi, filerCount |-> filers, totalAgi |-> agi,
   nysLiability |-> nys, nycLiability |-> nyc, nycResidentShare |-> share]

BASELINE_COHORTS ==
  << Cohort(Zero, N(25000), N(2881200), Dec(161, 8), Dec(35, 7), Dec(12, 7), Dec(42, -2)),
     Cohort(N(25000), N(50000), N(2077790), Dec(766, 8), Dec(18, 8), Dec(59, 7), Dec(42, -2)),
     Cohort(N(50000), N(75000), N(1439660), Dec(888, 8), Dec(27, 8), Dec(83, 7), Dec(42, -2)),
     Cohort(N(75000), N(100000), N(944360), Dec(818, 8), Dec(31, 8), Dec(92, 7), Dec(43, -2)),
     Cohort(N(100000), N(200000), N(1586490), Dec(219, 9), Dec(92, 8), Dec(275, 7), Dec(44, -2)),
     Cohort(N(200000), N(500000), N(648030), Dec(1873, 8), Dec(102, 8), Dec(31, 8), Dec(48, -2)),
     Cohort(N(500000), N(1000000), N(119860), Dec(813, 8), Dec(55, 8), Dec(17, 8), Dec(52, -2)),
     Cohort(N(1000000), N(5000000), N(57300), Dec(1072, 8), Dec(94, 8), Dec(245, 7), Dec(55, -2)),
     Cohort(N(5000000), N(25000000), N(9800), Dec(807, 8), Dec(82, 8), Dec(215, 7), Dec(58, -2)),
     Cohort(N(25000000), PosInf, N(2680), Dec(8, 10), Dec(81, 8), Dec(21, 8), Dec(6, -1)) >>

DEFAULT_BEHAVIORAL_PARAMS ==
  [model |-> "hybrid",
   baseMigrationRate |-> Dec(25, -3),
   migrationElasticity |-> N(1),
   maxMigrationShare |-> Dec(12, -2),
   thresholdDollars |-> N(100000),
   logisticSlope |-> N(50000),
   year1Share |-> Dec(3, -1),
   year3Share |-> Dec(7, -1),
   year5Share |-> N(1),
   replacementRate |-> Zero]

DEFAULT_POLICY ==
  [surchargeRate |-> Dec(2, -2),
   surchargeThreshold |-> N(1000000),
   flatRateChange |-> Zero,
   includeNyc |-> TRUE,
   nycSurchargeRate |-> Zero,
   nycSurchargeThreshold |-> N(1000000)]

DEFAULT_INPUT ==
  [policy |-> DEFAULT_POLICY,
   behavioral |-> DEFAULT_BEHAVIORAL_PARAMS,
   timeHorizon |-> 5,
   middleIncomeMin |-> N(75000),
   middleIncomeMax |-> N(200000)]

(***************************************************************************)
(* Tax computation                                                         *)
(***************************************************************************)
\* array.reduce((s, x) => s + x, 0) over a sequence of numbers
RECURSIVE FoldAddFrom(_, _, _)
FoldAddFrom(s, j, acc) ==
  IF j > Len(s) THEN acc
  ELSE LET next == Add(acc, s[j])
       IN IF IsNaN(next) THEN NaN ELSE FoldAddFrom(s, j + 1, next)

FoldAdd(s) == FoldAddFrom(s, 1, Zero)


TaxBracket(lo, hi, r) == [min |-> lo, max |-> hi, rate |-> r]

NYS_BRACKETS ==
  << TaxBracket(Zero, N(8500), Dec(4, -2)),
     TaxBracket(N(8500), N(11700), Dec(45, -3)),
     TaxBracket(N(11700), N(13900), Dec(525, -4)),
     TaxBracket(N(13900), N(80650), Dec(55, -3)),
     TaxBracket(N(80650), N(215400), Dec(6, -2)),
     TaxBracket(N(215400), N(1077550), Dec(685, -4)),
     TaxBracket(N(1077550), N(5000000), Dec(965, -4)),
     TaxBracket(N(5000000), N(25000000), Dec(103, -3)),
     TaxBracket(N(25000000), PosInf, Dec(109, -3)) >>

\* mutation: the second city bracket starts above the top of the first
NYC_BRACKETS_gap ==
  << TaxBracket(Zero, N(12000), Dec(3078, -5)),
     TaxBracket(N(12500), N(25000), Dec(3762, -5)),
     TaxBracket(N(25000), N(50000), Dec(3819, -5)),
     TaxBracket(N(50000), PosInf, Dec(3876, -5)) >>

NYC_BRACKETS ==
  << TaxBracket(Zero, N(12000), Dec(3078, -5)),
     TaxBracket(N(12000), N(25000), Dec(3762, -5)),
     TaxBracket(N(25000), N(50000), Dec(3819, -5)),
     TaxBracket(N(50000), PosInf, Dec(3876, -5)) >>

\* mutation: the income is not capped at the top of the bracket
taxableInBracket_uncapped(income, bracket) ==
  Sub(income, bracket.min)

\* mutation: the room left below the top of the bracket
taxableInBracket_fromTop(income, bracket) ==
  Sub(bracket.max, MathMin(income, bracket.max))

\* Math.min(income, bracket.max) - bracket.min
taxableInBracket(income, bracket) ==
  Sub(MathMin(income, bracket.max), bracket.min)

\* the loop of computeTax from the j-th bracket on, tax being the running total
RECURSIVE computeTaxFrom(_, _, _, _)
computeTaxFrom(income, brackets, j, tax) ==
  IF j > Len(brackets) THEN tax
  ELSE IF Le(income, brackets[j].min) THEN tax
  ELSE computeTaxFrom(income, brackets, j + 1,
                      Add(tax, Mul(taxableInBracket(income, brackets[j]),
                                   brackets[j].rate)))

computeTax(income, brackets) == computeTaxFrom(income, brackets, 1, Zero)

\* mutation: the operands of the subtraction exchanged
computeSurcharge_flipped(income, rate, threshold) ==
  IF Le(income, threshold) THEN Zero
  ELSE Mul(Sub(threshold, income), rate)

\* mutation: the rate applied to the whole income above the threshold
computeSurcharge_wholeIncome(income, rate, threshold) ==
  IF Le(income, threshold) THEN Zero
  ELSE Mul(income, rate)

computeSurcharge(income, rate, threshold) ==
  IF Le(income, threshold) THEN Zero
  ELSE Mul(Sub(income, threshold), rate)

\* if (policy.flatRateChange !== 0) tax += avgAgi * policy.flatRateChange
addFlatRateChange(tax, avgAgi, policy) ==
  IF policy.flatRateChange # Zero
  THEN Add(tax, Mul(avgAgi, policy.flatRateChange))
  ELSE tax

\* the millionaire surcharge step
addSurcharge(tax, avgAgi, policy) ==
  IF Gt(policy.surchargeRate, Zero) /\ Gt(policy.surchargeThreshold, Zero)
  THEN Add(tax, computeSurcharge(avgAgi, policy.surchargeRate,
                                 policy.surchargeThreshold))
  ELSE tax

\* the NYC surcharge step
addNycSurcharge(tax, avgAgi, policy, isNycResident) ==
  IF isNycResident /\ policy.includeNyc
     /\ Gt(policy.nycSurchargeRate, Zero)
     /\ Gt(policy.nycSurchargeThreshold, Zero)
  THEN Add(tax, computeSurcharge(avgAgi, policy.nycSurchargeRate,
                                 policy.nycSurchargeThreshold))
  ELSE tax

computeAdditionalTaxPerFiler(avgAgi, policy, isNycResident) ==
  addNycSurcharge(addSurcharge(addFlatRateChange(Zero, avgAgi, policy),
                               avgAgi, policy),
                  avgAgi, policy, isNycResident)

(***************************************************************************)
(* Behavioral migration models                                             *)
(***************************************************************************)
\* mutation: the shares of horizons 3 and 5 exchanged
getTimeScale_swapped(horizon, params) ==
  CASE horizon = 1 -> params.year1Share
    [] horizon = 3 -> params.year5Share
    [] horizon = 5 -> params.year3Share
    [] OTHER -> One

getTimeScale(horizon, params) ==
  CASE horizon = 1 -> params.year1Share
    [] horizon = 3 -> params.year3Share
    [] horizon = 5 -> params.year5Share
    [] OTHER -> One

\* rawShare of the elasticity model
ElasticityShare(additionalTaxPerFiler, avgAgi, params) ==
  LET netOfTaxRateChange == Div(additionalTaxPerFiler, avgAgi)
  IN Add(params.baseMigrationRate,
         Mul(params.migrationElasticity, netOfTaxRateChange))

\* rawShare of the threshold model
ThresholdShare(additionalTaxPerFiler, params) ==
  IF Lt(additionalTaxPerFiler, params.thresholdDollars)
  THEN params.baseMigrationRate
  ELSE LET overThreshold == Sub(additionalTaxPerFiler, params.thresholdDollars)
       IN Add(params.baseMigrationRate,
              Mul(Sub(params.maxMigrationShare, params.baseMigrationRate),
                  MathMin(One, Div(overThreshold, params.thresholdDollars))))

\* mutation: the logistic response scaled by the migration elasticity
HybridShare_elastic(additionalTaxPerFiler, params) ==
  LET x == Div(Sub(additionalTaxPerFiler, params.thresholdDollars),
               params.logisticSlope)
      sigmoid == Div(One, Add(One, MathExp(Neg(x))))
  IN Add(params.baseMigrationRate,
         Mul(params.migrationElasticity,
             Mul(Sub(params.maxMigrationShare, params.baseMigrationRate), sigmoid)))

\* rawShare of the hybrid (logistic) model
HybridShare(additionalTaxPerFiler, params) ==
  LET x == Div(Sub(additionalTaxPerFiler, params.thresholdDollars),
               params.logisticSlope)
      sigmoid == Div(One, Add(One, MathExp(Neg(x))))
  IN Add(params.baseMigrationRate,
         Mul(Sub(params.maxMigrationShare, params.baseMigrationRate), sigmoid))

\* time scaling, replacement offset and the final clamp
ClampShare(rawShare, params, timeHorizon) ==
  LET timeScale == getTimeScale(timeHorizon, params)
      netShare == Mul(Mul(rawShare, timeScale), Sub(One, params.replacementRate))
  IN MathMax(Zero, MathMin(params.maxMigrationShare, netShare))


\* rawShare as the switch on params.model computes it ('hybrid' is the default)
rawShareOf(additionalTaxPerFiler, avgAgi, params) ==
  IF params.model = "elasticity"
  THEN ElasticityShare(additionalTaxPerFiler, avgAgi, params)
  ELSE IF params.model = "threshold"
       THEN ThresholdShare(additionalTaxPerFiler, params)
  ELSE HybridShare(additionalTaxPerFiler, params)

\* the dispatch on params.model, after the early return
shareByModel(additionalTaxPerFiler, avgAgi, params, timeHorizon) ==
  IF params.model = "none" THEN Zero
  ELSE ClampShare(rawShareOf(additionalTaxPerFiler, avgAgi, params),
                  params, timeHorizon)

\* mutation: the early return on a non-positive additional tax is missing
computeMigrationShare_noGuard(additionalTaxPerFiler, avgAgi, params, timeHorizon) ==
  shareByModel(additionalTaxPerFiler, avgAgi, params, timeHorizon)

\* mutation: the early return tests < 0 instead of <= 0
computeMigrationShare_strictGuard(additionalTaxPerFiler, avgAgi, params, timeHorizon) ==
  IF Lt(additionalTaxPerFiler, Zero) THEN Zero
  ELSE shareByModel(additionalTaxPerFiler, avgAgi, params, timeHorizon)

\* mutation: the case 'none' is missing and falls to the default (hybrid)
computeMigrationShare_noneFalls(additionalTaxPerFiler, avgAgi, params, timeHorizon) ==
  IF Le(additionalTaxPerFiler, Zero) THEN Zero
  ELSE shareByModel(additionalTaxPerFiler, avgAgi,
                    [params EXCEPT !.model = IF @ = "none" THEN "hybrid" ELSE @],
                    timeHorizon)

computeMigrationShare(additionalTaxPerFiler, avgAgi, params, timeHorizon) ==
  IF Le(additionalTaxPerFiler, Zero) THEN Zero
  ELSE shareByModel(additionalTaxPerFiler, avgAgi, params, timeHorizon)

(***************************************************************************)
(* Middle-income offset                                                    *)
(***************************************************************************)
\* Math.round of a finite number of magnitude below 10^9
MathRound(a) == IF a.e >= 0 THEN a ELSE N(Floor(Add(a, Dec(5, -1))))

overlapFraction(c, middleIncomeMin, middleIncomeMax) ==
  LET overlapMin == MathMax(c.agiMin, middleIncomeMin)
      overlapMax == MathMin(c.agiMax, middleIncomeMax)
  IN Div(Sub(overlapMax, overlapMin), Sub(c.agiMax, c.agiMin))

\* Math.max(0, Math.min(1, overlapFraction)) of a cohort
prorate(c, middleIncomeMin, middleIncomeMax) ==
  MathMax(Zero, MathMin(One, overlapFraction(c, middleIncomeMin, middleIncomeMax)))

\* the result when there is no shortfall
offsetWithoutShortfall(middleCohorts) ==
  [rateIncrease |-> Null, perFiler |-> Null, pctIncome |-> Null,
   filerCount |-> FoldAdd([j \in 1..Len(middleCohorts) |->
                             middleCohorts[j].filerCount])]

\* mutation: the test for zero prorated totals is missing
offsetOfShortfall_noZeroTest(shortfall, totalMiddleAgi, filerCount) ==
  LET rateIncrease == Div(shortfall, totalMiddleAgi)
      perFiler == Div(shortfall, filerCount)
      avgMiddleIncome == Div(totalMiddleAgi, filerCount)
      pctIncome == Div(perFiler, avgMiddleIncome)
  IN [rateIncrease |-> rateIncrease, perFiler |-> perFiler,
      pctIncome |-> pctIncome, filerCount |-> MathRound(filerCount)]

\* the result of a shortfall, from the prorated totals of the middle cohorts
offsetOfShortfall(shortfall, totalMiddleAgi, filerCount) ==
  IF totalMiddleAgi = Zero \/ filerCount = Zero
  THEN [rateIncrease |-> Null, perFiler |-> Null, pctIncome |-> Null,
        filerCount |-> Zero]
  ELSE LET rateIncrease == Div(shortfall, totalMiddleAgi)
           perFiler == Div(shortfall, filerCount)
           avgMiddleIncome == Div(totalMiddleAgi, filerCount)
           pctIncome == Div(perFiler, avgMiddleIncome)
       IN [rateIncrease |-> rateIncrease, perFiler |-> perFiler,
           pctIncome |-> pctIncome, filerCount |-> MathRound(filerCount)]

\* the two reductions over the cohorts that overlap the middle-income range
offsetOverCohorts(shortfall, middleCohorts, middleIncomeMin, middleIncomeMax) ==
  offsetOfShortfall(
    shortfall,
    FoldAdd([j \in 1..Len(middleCohorts) |->
               Mul(middleCohorts[j].totalAgi,
                   prorate(middleCohorts[j], middleIncomeMin, middleIncomeMax))]),
    FoldAdd([j \in 1..Len(middleCohorts) |->
               Mul(middleCohorts[j].filerCount,
                   prorate(middleCohorts[j], middleIncomeMin, middleIncomeMax))]))

\* mutation: without a shortfall the overlapping cohorts are counted, not
\* only those fully inside the band
computeMiddleIncomeOffset_overlapCount(netRevenueChange, middleIncomeMin, middleIncomeMax, cohortList) ==
  IF Ge(netRevenueChange, Zero)
  THEN offsetWithoutShortfall(
         SelectSeq(cohortList,
                   LAMBDA c: Lt(c.agiMin, middleIncomeMax)
                             /\ Gt(c.agiMax, middleIncomeMin)))
  ELSE offsetOverCohorts(
         MathAbs(netRevenueChange),
         SelectSeq(cohortList,
                   LAMBDA c: Lt(c.agiMin, middleIncomeMax)
                             /\ Gt(c.agiMax, middleIncomeMin)),
         middleIncomeMin, middleIncomeMax)

computeMiddleIncomeOffset(netRevenueChange, middleIncomeMin, middleIncomeMax, cohortList) ==
  IF Ge(netRevenueChange, Zero)
  THEN offsetWithoutShortfall(
         SelectSeq(cohortList,
                   LAMBDA c: Ge(c.agiMin, middleIncomeMin)
                             /\ Le(c.agiMax, middleIncomeMax)))
  ELSE offsetOverCohorts(
         MathAbs(netRevenueChange),
         SelectSeq(cohortList,
                   LAMBDA c: Lt(c.agiMin, middleIncomeMax)
                             /\ Gt(c.agiMax, middleIncomeMin)),
         middleIncomeMin, middleIncomeMax)

(***************************************************************************)
(* Main model computation                                                  *)
(***************************************************************************)
\* mutation: the city part counted for every filer
weightedAdditionalTax_unweighted(cohort, policy, additionalTaxNys, withNyc) ==
  Add(additionalTaxNys,
      IF policy.includeNyc THEN Sub(withNyc, additionalTaxNys) ELSE Zero)

\* additionalTaxNys + additionalTaxNyc * cohort.nycResidentShare
weightedAdditionalTax(cohort, policy, additionalTaxNys, withNyc) ==
  Add(additionalTaxNys,
      Mul(IF policy.includeNyc THEN Sub(withNyc, additionalTaxNys) ELSE Zero,
          cohort.nycResidentShare))

\* the per-filer additional tax of a cohort, NYC part weighted by residency
cohortAdditionalTax(cohort, policy, avgAgi) ==
  weightedAdditionalTax(
    cohort, policy,
    computeAdditionalTaxPerFiler(avgAgi, [policy EXCEPT !.includeNyc = FALSE], FALSE),
    computeAdditionalTaxPerFiler(avgAgi, policy, TRUE))

\* mutation: the departing filers take only their existing liability
cohortMigrationLoss_existingOnly(cohort, migrationShare, additionalTaxPerFiler) ==
  Mul(Mul(cohort.filerCount, migrationShare),
      Div(Add(cohort.nysLiability, cohort.nycLiability), cohort.filerCount))

\* revenue lost with the departing filers of a cohort
cohortMigrationLoss(cohort, migrationShare, additionalTaxPerFiler) ==
  LET existingTaxPerFiler ==
        Div(Add(cohort.nysLiability, cohort.nycLiability), cohort.filerCount)
      leavingFilers == Mul(cohort.filerCount, migrationShare)
  IN Mul(leavingFilers, Add(existingTaxPerFiler, additionalTaxPerFiler))

\* the object a cohort is mapped to
cohortReturn(cohort, additionalTaxPerFiler, mechanicalGain, migrationShare, migrationLoss) ==
  [cohort |-> cohort,
   additionalTaxPerFiler |-> additionalTaxPerFiler,
   mechanicalGain |-> mechanicalGain,
   migrationShare |-> migrationShare,
   migrationLoss |-> migrationLoss,
   netRevenueChange |-> Sub(mechanicalGain, migrationLoss)]

\* gain and loss of a cohort, from its additional tax and migration share
cohortGainAndLoss(cohort, additionalTaxPerFiler, migrationShare) ==
  cohortReturn(cohort, additionalTaxPerFiler,
               Mul(additionalTaxPerFiler, cohort.filerCount),
               migrationShare,
               cohortMigrationLoss(cohort, migrationShare, additionalTaxPerFiler))

\* the migration share of a cohort, from its additional tax
cohortMigration(cohort, avgAgi, additionalTaxPerFiler, behavioral, timeHorizon) ==
  cohortGainAndLoss(cohort, additionalTaxPerFiler,
                    computeMigrationShare(additionalTaxPerFiler, avgAgi,
                                          behavioral, timeHorizon))

\* the body of cohorts.map in runModel
cohortResult(cohort, policy, behavioral, timeHorizon) ==
  LET avgAgi == Div(cohort.totalAgi, cohort.filerCount)
  IN cohortMigration(cohort, avgAgi, cohortAdditionalTax(cohort, policy, avgAgi),
                     behavioral, timeHorizon)


\* mutation: the operands of the subtraction exchanged
totalNetRevenueChange_swapped(totalMechanicalGain, totalBehavioralLoss) ==
  Sub(totalBehavioralLoss, totalMechanicalGain)

\* netRevenueChange of the whole run, from the two totals
totalNetRevenueChange(totalMechanicalGain, totalBehavioralLoss) ==
  Sub(totalMechanicalGain, totalBehavioralLoss)

\* the ModelOutput runModel returns
runModelReturn(in, cohortResults, totalMechanicalGain, totalBehavioralLoss, netRevenueChange, baselineRevenue, middleOffset) ==
  [cohortResults |-> cohortResults,
   totalMechanicalGain |-> totalMechanicalGain,
   totalBehavioralLoss |-> totalBehavioralLoss,
   netRevenueChange |-> netRevenueChange,
   baselineRevenue |-> baselineRevenue,
   middleIncomeOffset |-> middleOffset.rateIncrease,
   middleIncomeOffsetPerFiler |-> middleOffset.perFiler,
   middleIncomeOffsetPctIncome |-> middleOffset.pctIncome,
   middleIncomeFilerCount |-> middleOffset.filerCount,
   timeHorizon |-> in.timeHorizon]

\* baselineRevenue and the middle-income offset, from the net revenue change
runModelOffset(in, cohortList, cohortResults, totalMechanicalGain, totalBehavioralLoss, netRevenueChange) ==
  runModelReturn(
    in, cohortResults, totalMechanicalGain, totalBehavioralLoss, netRevenueChange,
    FoldAdd([j \in 1..(2 * Len(cohortList)) |->
               IF j % 2 = 1 THEN cohortList[(j + 1) \div 2].nysLiability
               ELSE cohortList[j \div 2].nycLiability]),
    computeMiddleIncomeOffset(netRevenueChange, in.middleIncomeMin,
                              in.middleIncomeMax, cohortList))

\* netRevenueChange, from the two totals
runModelNet(in, cohortList, cohortResults, totalMechanicalGain, totalBehavioralLoss) ==
  runModelOffset(in, cohortList, cohortResults, totalMechanicalGain,
                 totalBehavioralLoss,
                 totalNetRevenueChange(totalMechanicalGain, totalBehavioralLoss))

\* the two totals, from the cohort results
runModelTotals(in, cohortList, cohortResults) ==
  runModelNet(in, cohortList, cohortResults,
              FoldAdd([j \in 1..Len(cohortResults) |-> cohortResults[j].mechanicalGain]),
              FoldAdd([j \in 1..Len(cohortResults) |-> cohortResults[j].migrationLoss]))

runModel(in, cohortList) ==
  runModelTotals(in, cohortList,
                 [j \in 1..Len(cohortList) |->
                    cohortResult(cohortList[j], in.policy, in.behavioral,
                                 in.timeHorizon)])

\* the point pushed for a rate and the output of its run
curvePoint(rate, out) ==
  [surchargeRate |-> rate,
   mechanicalGain |-> out.totalMechanicalGain,
   behavioralLoss |-> out.totalBehavioralLoss,
   netRevenue |-> out.netRevenueChange]

\* mutation: the rate of the following step
revenueCurvePoint_nextRate(baseInput, maxRate, steps, j, cohortList) ==
  LET rate == Div(Mul(maxRate, N(j + 1)), N(steps))
  IN curvePoint(rate, runModel([baseInput EXCEPT !.policy.surchargeRate = rate],
                               cohortList))

\* one iteration of the loop of generateRevenueCurve
revenueCurvePoint(baseInput, maxRate, steps, j, cohortList) ==
  LET rate == Div(Mul(maxRate, N(j)), N(steps))
  IN curvePoint(rate, runModel([baseInput EXCEPT !.policy.surchargeRate = rate],
                               cohortList))

\* net revenue and filer-weighted average migration share of one swept run
sensitivityEntry(out) ==
  [netRevenue |-> out.netRevenueChange,
   migrationShare |->
     Div(FoldAdd([j \in 1..Len(out.cohortResults) |->
                    Mul(out.cohortResults[j].migrationShare,
                        out.cohortResults[j].cohort.filerCount)]),
         FoldAdd([j \in 1..Len(out.cohortResults) |->
                    out.cohortResults[j].cohort.filerCount]))]

\* the SensitivityResult runSensitivity returns
sensitivityReturn(paramName, values, entries) ==
  [paramName |-> paramName,
   paramValues |-> values,
   netRevenues |-> [k \in 1..Len(entries) |-> entries[k].netRevenue],
   migrationShares |-> [k \in 1..Len(entries) |-> entries[k].migrationShare]]

runSensitivity(baseInput, paramName, values, cohortList) ==
  sensitivityReturn(
    paramName, values,
    [k \in 1..Len(values) |->
       sensitivityEntry(runModel([baseInput EXCEPT !.behavioral[paramName] = values[k]],
                                 cohortList))])

\* the behavioral parameters of the four preset scenarios
\* mutation: the static preset keeps a migrating model
staticBehavioral_elasticity(b) == [b EXCEPT !.model = "elasticity"]

staticBehavioral(b) == [b EXCEPT !.model = "none"]

conservativeBehavioral(b) ==
  [b EXCEPT !.model = "hybrid",
            !.migrationElasticity = Dec(4, -1),
            !.maxMigrationShare = Dec(5, -2),
            !.thresholdDollars = N(200000)]

aggressiveBehavioral(b) ==
  [b EXCEPT !.model = "hybrid",
            !.migrationElasticity = Dec(23, -1),
            !.maxMigrationShare = Dec(2, -1),
            !.thresholdDollars = N(50000),
            !.logisticSlope = N(30000)]

runScenarios(baseInput, cohortList) ==
  << [label |-> "No behavioral response (static)",
      output |-> runModel([baseInput EXCEPT !.behavioral = staticBehavioral(@)],
                          cohortList)],
     [label |-> "Conservative response (Young & Varner)",
      output |-> runModel([baseInput EXCEPT !.behavioral = conservativeBehavioral(@)],
                          cohortList)],
     [label |-> "Moderate response (default)",
      output |-> runModel(baseInput, cohortList)],
     [label |-> "Aggressive response (Moretti & Wilson)",
      output |-> runModel([baseInput EXCEPT !.behavioral = aggressiveBehavioral(@)],
                          cohortList)] >>

\* one entry of RevenueChart's chartData, in billions of dollars
chartDatum(d) ==
  [rate |-> d.surchargeRate,
   mechanical |-> Div(d.mechanicalGain, Dec(1, 9)),
   behavioral |-> Div(Neg(d.behavioralLoss), Dec(1, 9)),
   net |-> Div(d.netRevenue, Dec(1, 9))]

\* chartData.reduce((best, d) => d.net > best.net ? d : best, chartData[0])
RECURSIVE peakFrom(_, _, _)
peakFrom(chartData, j, best) ==
  IF j > Len(chartData) \/ IsNaN(best.net) THEN best
  ELSE peakFrom(chartData, j + 1,
                IF Gt(chartData[j].net, best.net) THEN chartData[j] ELSE best)

\* chartData.findIndex(d => d.net < 0), counted from 0
findTippingIdx(chartData) ==
  LET negative == {j \in 1..Len(chartData) : Lt(chartData[j].net, Zero)}
  IN IF negative = {} THEN -1
     ELSE (CHOOSE j \in negative : \A k \in negative : j <= k) - 1

\* what RevenueChart draws from chartData: the peak, the tipping point and its
\* reference line and label
chartMarks(chartData, tippingIdx) ==
  [chartData |-> chartData,
   peak |-> IF Len(chartData) = 0 THEN Null ELSE peakFrom(chartData, 1, chartData[1]),
   tippingIdx |-> tippingIdx,
   tippingRate |-> IF tippingIdx >= 0 THEN chartData[tippingIdx + 1].rate ELSE Null]

RevenueChart(data) ==
  chartMarks([j \in 1..Len(data) |-> chartDatum(data[j])],
             findTippingIdx([j \in 1..Len(data) |-> chartDatum(data[j])]))

(***************************************************************************)
(* State: the arguments of a call and the values it has produced           *)
(***************************************************************************)
VARIABLES
  input,      \* the ModelInput handed to runModel / generateRevenueCurve
  cohorts,    \* the cohort list handed to them
  maxRate,    \* generateRevenueCurve's maxRate
  steps,      \* generateRevenueCurve's steps
  phase,      \* "idle", "ran", "shared", "curve" or "curveDone"
  output,     \* <<the ModelOutput returned by runModel>>, <<>> before the call
  shareCall,  \* <<arguments and results of computeMigrationShare>>, or <<>>
  i,          \* generateRevenueCurve's loop counter
  points,     \* generateRevenueCurve's points array
  offsetCall, \* <<argument and result of computeMiddleIncomeOffset>>, or <<>>
  taxCall     \* <<arguments and results of a tax function>>, or <<>>

vars == <<input, cohorts, maxRate, steps, phase, output, shareCall, i, points,
          offsetCall, taxCall>>

\* bounds of the enumerated inputs
MaxCohorts == 2
MaxSteps == 2
MaxEvals == 2

TimeHorizons == {1, 3, 5}
\* horizons computeMigrationShare is called with (2 stands for "any other")
ShareHorizons == {1, 2, 3, 5}

\* cohorts the enumerated cohort lists are built from
CohortPool ==
  { Cohort(Zero, N(1000000), N(4), N(2000000), N(80000), N(20000), Dec(5, -1)),
    Cohort(N(1000000), PosInf, N(2), N(12000000), N(1000000), N(200000), Dec(5, -1)) }

RECURSIVE SeqsUpTo(_, _)
SeqsUpTo(S, n) ==
  IF n = 0 THEN {<<>>}
  ELSE LET shorter == SeqsUpTo(S, n - 1)
       IN shorter \cup {Append(q, c) : q \in shorter, c \in S}

CohortLists == SeqsUpTo(CohortPool, MaxCohorts)

Policies ==
  [surchargeRate : {Zero, Dec(2, -2)},
   surchargeThreshold : {N(1000000)},
   flatRateChange : {Dec(-1, -2), Zero, Dec(1, -2)},
   includeNyc : BOOLEAN,
   nycSurchargeRate : {Zero, Dec(1, -2)},
   nycSurchargeThreshold : {N(1000000)}]

ModelTypes == {"none", "elasticity", "threshold", "hybrid"}

\* behavioral parameters of the runModel checks
Behaviorals ==
  {[DEFAULT_BEHAVIORAL_PARAMS EXCEPT !.model = mt] : mt \in ModelTypes}
    \cup {[DEFAULT_BEHAVIORAL_PARAMS EXCEPT !.logisticSlope = Zero],
          [DEFAULT_BEHAVIORAL_PARAMS EXCEPT !.replacementRate = Dec(5, -1)]}

\* behavioral parameters of the computeMigrationShare checks: every field at
\* its boundary values and at an interior value
YearShares == {<<Dec(3, -1), Dec(7, -1), One>>, <<Zero, Zero, Zero>>}

WideBehaviorals ==
  {[model |-> mt, baseMigrationRate |-> b, migrationElasticity |-> el,
    maxMigrationShare |-> mx, thresholdDollars |-> th, logisticSlope |-> sl,
    year1Share |-> ys[1], year3Share |-> ys[2], year5Share |-> ys[3],
    replacementRate |-> rr] :
     mt \in ModelTypes, b \in {Zero, Dec(25, -3)}, el \in {Zero, One},
     mx \in {Zero, Dec(12, -2)}, th \in {Zero, N(100000)},
     sl \in {Zero, N(50000)}, ys \in YearShares,
     rr \in {Zero, Dec(5, -1), One}}

\* arguments of the direct calls of computeMigrationShare
TaxArgs == {N(-10000), Zero, One, N(50000), N(100000), N(150000), N(200000),
            Dec(1, 9)}
AgiArgs == {N(1000000)}

InitCall ==
  /\ phase = "idle"
  /\ output = <<>>
  /\ shareCall = <<>>
  /\ i = 0
  /\ points = <<>>
  /\ offsetCall = <<>>
  /\ taxCall = <<>>

\* runModel and generateRevenueCurve over enumerated policies and cohort lists
Init ==
  /\ input \in [policy : Policies, behavioral : Behaviorals,
                timeHorizon : TimeHorizons,
                middleIncomeMin : {N(75000)}, middleIncomeMax : {N(200000)}]
  /\ cohorts \in CohortLists
  /\ maxRate = Dec(1, -1)
  /\ steps = MaxSteps
  /\ InitCall

\* computeMigrationShare over enumerated behavioral parameters
InitShare ==
  /\ input \in [policy : {DEFAULT_POLICY}, behavioral : WideBehaviorals,
                timeHorizon : {5},
                middleIncomeMin : {N(75000)}, middleIncomeMax : {N(200000)}]
  /\ cohorts \in {q \in CohortLists : Len(q) = MaxCohorts /\ q[1] # q[Len(q)]}
  /\ maxRate = Dec(1, -1)
  /\ steps = MaxSteps
  /\ InitCall

\* the page's defaults on the embedded dataset
InitBaseline ==
  /\ input \in {[DEFAULT_INPUT EXCEPT !.timeHorizon = h] : h \in TimeHorizons}
  /\ cohorts = BASELINE_COHORTS
  /\ maxRate = Dec(1, -1)
  /\ steps \in {20, 50}
  /\ InitCall

\* middle-income bands <<min, max>> of the computeMiddleIncomeOffset checks:
\* the default band, bands of whole cohorts, a band cutting cohorts, bands
\* reaching the unbounded top cohort, an unbounded band, and empty bands
Bands ==
  { <<N(75000), N(200000)>>, <<N(50000), N(100000)>>, <<Zero, N(1000000)>>,
    <<N(60000), N(90000)>>, <<N(60000), N(200000)>>,
    <<N(30000000), N(50000000)>>,
    <<N(1000000), PosInf>>, <<N(200000), N(75000)>>, <<Zero, Zero>> }

\* net revenue changes handed to computeMiddleIncomeOffset
NetArgs == {N(-1000000000), N(-7), Zero, N(1000000)}

\* cohort lists of the computeMiddleIncomeOffset checks
OffsetCohortLists == CohortLists \cup {BASELINE_COHORTS}

\* computeMiddleIncomeOffset, and runModel with and without a shortfall, over
\* enumerated bands and cohort lists
InitOffset ==
  /\ input \in {[DEFAULT_INPUT EXCEPT !.middleIncomeMin = b[1],
                                      !.middleIncomeMax = b[2],
                                      !.policy.flatRateChange = f] :
                  b \in Bands, f \in {Zero, Dec(-1, -2)}}
  /\ cohorts \in OffsetCohortLists
  /\ maxRate = Dec(1, -1)
  /\ steps = MaxSteps
  /\ InitCall

\* bracket schedules of the computeTax checks: the two schedules of the
\* program, one whose first bracket is untaxed, and one of a single bracket
BracketSchedules ==
  { NYS_BRACKETS, NYC_BRACKETS,
    << TaxBracket(Zero, N(10000), Zero), TaxBracket(N(10000), PosInf, Dec(1, -1)) >>,
    << TaxBracket(Zero, PosInf, Dec(5, -2)) >> }

\* incomes of the tax function checks: below, at and above bracket bounds and
\* surcharge thresholds
Incomes ==
  { N(-5000), Zero, N(5000), N(8500), N(12000), N(50000), N(100000), N(215400),
    N(500000), N(1000000), N(1077550), N(2000000), N(5000000), N(30000000),
    Dec(1, 9) }

\* policies of the tax function checks
TaxPolicies ==
  [surchargeRate : {Zero, Dec(2, -2), Dec(1, -1)},
   surchargeThreshold : {Zero, N(1000000)},
   flatRateChange : {Dec(-1, -2), Zero, Dec(1, -2)},
   includeNyc : BOOLEAN,
   nycSurchargeRate : {Zero, Dec(1, -2)},
   nycSurchargeThreshold : {N(500000)}]

\* rates handed to computeSurcharge: a cut, none, and two surcharges
SurchargeRates == {Dec(-1, -2), Zero, Dec(2, -2), Dec(1, -1)}

\* computeTax, computeSurcharge and computeAdditionalTaxPerFiler over
\* enumerated policies
InitTax ==
  /\ input \in {[DEFAULT_INPUT EXCEPT !.policy = p] : p \in TaxPolicies}
  /\ cohorts = BASELINE_COHORTS
  /\ maxRate = Dec(1, -1)
  /\ steps = MaxSteps
  /\ InitCall

\* sweeps handed to runSensitivity: <<paramName, values>>
SensitivitySweeps ==
  { <<"migrationElasticity", <<Zero, One, N(4)>> >> }

\* evaluations made one after another, and between the steps of a sweep, on
\* one input object and one cohort table
InitEvals ==
  /\ input \in {[DEFAULT_INPUT EXCEPT !.timeHorizon = h] : h \in TimeHorizons}
  /\ cohorts \in {q \in CohortLists : Len(q) = 2 /\ q[1].agiMin = Zero /\ q[2].agiMin # Zero}
  /\ maxRate = Dec(1, -1)
  /\ steps = MaxSteps
  /\ InitCall

\* runScenarios and runSensitivity over enumerated inputs, on the enumerated
\* cohort lists and on the embedded table
InitScenarios ==
  /\ input \in [policy : Policies, behavioral : Behaviorals,
                timeHorizon : {1, 5},
                middleIncomeMin : {N(75000)}, middleIncomeMax : {N(200000)}]
  /\ cohorts \in CohortLists \cup {BASELINE_COHORTS}
  /\ maxRate = Dec(1, -1)
  /\ steps = MaxSteps
  /\ InitCall

\* output = runModel(input, cohorts)
RunModelCall ==
  /\ phase = "idle"
  /\ output' = <<runModel(input, cohorts)>>
  /\ phase' = "ran"
  /\ UNCHANGED <<input, cohorts, maxRate, steps, shareCall, i, points, offsetCall, taxCall>>

\* computeMigrationShare(tax, avgAgi, input.behavioral, h) for each horizon h
ShareCall ==
  /\ phase = "idle"
  /\ \E tax \in TaxArgs, agi \in AgiArgs :
       shareCall' = <<[additionalTaxPerFiler |-> tax, avgAgi |-> agi,
                       share |-> [h \in ShareHorizons |->
                          computeMigrationShare(tax, agi, input.behavioral, h)]]>>
  /\ phase' = "shared"
  /\ UNCHANGED <<input, cohorts, maxRate, steps, output, i, points, offsetCall, taxCall>>

\* computeMigrationShare(tax, avgAgi, input.behavioral, h) for each tax, at a
\* horizon h
ShareSweepCall ==
  /\ phase = "idle"
  /\ \E h \in ShareHorizons, agi \in AgiArgs :
       shareCall' = <<[avgAgi |-> agi, timeHorizon |-> h,
                       share |-> [tax \in TaxArgs |->
                          computeMigrationShare(tax, agi, input.behavioral, h)]]>>
  /\ phase' = "swept"
  /\ UNCHANGED <<input, cohorts, maxRate, steps, output, i, points, offsetCall, taxCall>>

\* mutation: the swept rate is written into the caller's input object
CurveStep_inPlace ==
  /\ phase \in {"idle", "curve"}
  /\ i <= steps
  /\ input' = [input EXCEPT !.policy.surchargeRate = Div(Mul(maxRate, N(i)), N(steps))]
  /\ points' = Append(points, revenueCurvePoint(input, maxRate, steps, i, cohorts))
  /\ i' = i + 1
  /\ phase' = "curve"
  /\ UNCHANGED <<cohorts, maxRate, steps, output, shareCall, offsetCall, taxCall>>

\* one iteration of generateRevenueCurve's loop
CurveStep ==
  /\ phase \in {"idle", "curve"}
  /\ i <= steps
  /\ points' = Append(points, revenueCurvePoint(input, maxRate, steps, i, cohorts))
  /\ i' = i + 1
  /\ phase' = "curve"
  /\ UNCHANGED <<input, cohorts, maxRate, steps, output, shareCall, offsetCall, taxCall>>

\* generateRevenueCurve returns points
CurveReturn ==
  /\ phase = "curve"
  /\ i > steps
  /\ phase' = "curveDone"
  /\ UNCHANGED <<input, cohorts, maxRate, steps, output, shareCall, i, points, offsetCall, taxCall>>

\* computeMiddleIncomeOffset(net, input.middleIncomeMin, input.middleIncomeMax,
\* cohorts)
OffsetCall ==
  /\ phase = "idle"
  /\ \E net \in NetArgs :
       offsetCall' = <<[netRevenueChange |-> net,
                        result |-> computeMiddleIncomeOffset(
                                     net, input.middleIncomeMin,
                                     input.middleIncomeMax, cohorts)]>>
  /\ phase' = "offset"
  /\ UNCHANGED <<input, cohorts, maxRate, steps, output, shareCall, i, points, taxCall>>

\* computeTax(income, brackets) for each income, for a bracket schedule
TaxCall ==
  /\ phase = "idle"
  /\ \E b \in BracketSchedules :
       taxCall' = <<[fn |-> "computeTax", brackets |-> b,
                     tax |-> [inc \in Incomes |-> computeTax(inc, b)]]>>
  /\ phase' = "taxed"
  /\ UNCHANGED <<input, cohorts, maxRate, steps, output, shareCall, i, points, offsetCall>>

\* computeSurcharge(income, rate, threshold) for each income
SurchargeCall ==
  /\ phase = "idle"
  /\ \E r \in SurchargeRates :
       taxCall' = <<[fn |-> "computeSurcharge", rate |-> r,
                     threshold |-> input.policy.surchargeThreshold,
                     tax |-> [inc \in Incomes |->
                               computeSurcharge(inc, r, input.policy.surchargeThreshold)]]>>
  /\ phase' = "taxed"
  /\ UNCHANGED <<input, cohorts, maxRate, steps, output, shareCall, i, points, offsetCall>>

\* computeAdditionalTaxPerFiler(avgAgi, policy, isNycResident) for each
\* average AGI
AdditionalTaxCall ==
  /\ phase = "idle"
  /\ \E isNycResident \in BOOLEAN :
       taxCall' = <<[fn |-> "computeAdditionalTaxPerFiler",
                     isNycResident |-> isNycResident,
                     tax |-> [avgAgi \in Incomes |->
                               computeAdditionalTaxPerFiler(avgAgi, input.policy,
                                                            isNycResident)]]>>
  /\ phase' = "taxed"
  /\ UNCHANGED <<input, cohorts, maxRate, steps, output, shareCall, i, points, offsetCall>>

\* an evaluation can start whenever the caller is between two statements
BetweenStatements ==
  /\ phase \in {"idle", "curve", "curveDone"}
  /\ Len(output) < MaxEvals

\* the entry an evaluation adds to the list of evaluations made so far
Evaluated(fn, args, result) ==
  /\ output' = Append(output, [fn |-> fn, args |-> args, at |-> phase, result |-> result])
  /\ UNCHANGED <<input, cohorts, maxRate, steps, phase, shareCall, i, points, offsetCall, taxCall>>

RunModelEval ==
  /\ BetweenStatements
  /\ Evaluated("runModel", <<>>, runModel(input, cohorts))

ScenariosEval ==
  /\ BetweenStatements
  /\ Evaluated("runScenarios", <<>>, runScenarios(input, cohorts))

SensitivityEval ==
  /\ BetweenStatements
  /\ \E sw \in SensitivitySweeps :
       Evaluated("runSensitivity", sw, runSensitivity(input, sw[1], sw[2], cohorts))

ShareEval ==
  /\ BetweenStatements
  /\ Evaluated("computeMigrationShare", <<N(150000), N(1000000)>>,
               computeMigrationShare(N(150000), N(1000000), input.behavioral,
                                     input.timeHorizon))

OffsetEval ==
  /\ BetweenStatements
  /\ Evaluated("computeMiddleIncomeOffset", <<>>,
               computeMiddleIncomeOffset(N(-1000000), input.middleIncomeMin,
                                         input.middleIncomeMax, cohorts))

\* output = runScenarios(input, cohorts)
ScenariosCall ==
  /\ phase = "idle"
  /\ output' = <<runScenarios(input, cohorts)>>
  /\ phase' = "scenarios"
  /\ UNCHANGED <<input, cohorts, maxRate, steps, shareCall, i, points, offsetCall, taxCall>>

\* RevenueChart renders the finished revenue curve
ChartRender ==
  /\ phase = "curveDone"
  /\ output' = <<RevenueChart(points)>>
  /\ phase' = "charted"
  /\ UNCHANGED <<input, cohorts, maxRate, steps, shareCall, i, points, offsetCall, taxCall>>

\* output = runSensitivity(input, paramName, values, cohorts)
SensitivityCall ==
  /\ phase = "idle"
  /\ \E sw \in SensitivitySweeps :
       output' = <<runSensitivity(input, sw[1], sw[2], cohorts)>>
  /\ phase' = "sensitivity"
  /\ UNCHANGED <<input, cohorts, maxRate, steps, shareCall, i, points, offsetCall, taxCall>>

Next == RunModelCall \/ ShareCall \/ CurveStep \/ CurveReturn

Spec == Init /\ [][Next]_vars
SpecShare == InitShare /\ [][Next]_vars
SpecBaseline == InitBaseline /\ [][Next]_vars

NextSweep == ShareSweepCall
SpecSweep == InitShare /\ [][NextSweep]_vars

NextEvals ==
  \/ RunModelEval \/ ScenariosEval \/ SensitivityEval \/ ShareEval \/ OffsetEval
  \/ CurveStep \/ CurveReturn
SpecEvals == InitEvals /\ [][NextEvals]_vars

NextScenarios == ScenariosCall \/ SensitivityCall
SpecScenarios == InitScenarios /\ [][NextScenarios]_vars

NextChart == CurveStep \/ CurveReturn \/ ChartRender
SpecChart == InitBaseline /\ [][NextChart]_vars

NextTax == TaxCall \/ SurchargeCall \/ AdditionalTaxCall
SpecTax == InitTax /\ [][NextTax]_vars

NextOffset == OffsetCall \/ RunModelCall
SpecOffset == InitOffset /\ [][NextOffset]_vars

(***************************************************************************)
(* Properties                                                              *)
(***************************************************************************)
\* the column of a field over the cohort results of a run
MechanicalColumn(o) == [j \in 1..Len(o.cohortResults) |-> o.cohortResults[j].mechanicalGain]
LossColumn(o) == [j \in 1..Len(o.cohortResults) |-> o.cohortResults[j].migrationLoss]

NoOpPolicy(p) ==
  p.surchargeRate = Zero /\ p.flatRateChange = Zero /\ ~p.includeNyc

\* C1: every run of runModel returns netRevenueChange = totalMechanicalGain -
\* totalBehavioralLoss, the two totals being the sums of the per-cohort
\* mechanicalGain and migrationLoss columns.
C1_NetIsGainMinusLoss ==
  phase = "ran" =>
    LET o == output[1]
    IN /\ o.totalMechanicalGain = FoldAdd(MechanicalColumn(o))
       /\ o.totalBehavioralLoss = FoldAdd(LossColumn(o))
       /\ o.netRevenueChange = Sub(FoldAdd(MechanicalColumn(o)), FoldAdd(LossColumn(o)))

\* a run over two cohorts with a positive gain and a positive loss
C1_Witness ==
  /\ phase = "ran"
  /\ Len(cohorts) = 2
  /\ Gt(output[1].totalMechanicalGain, Zero)
  /\ Gt(output[1].totalBehavioralLoss, Zero)

\* C2 (as claimed): every result of computeMigrationShare is a number s with
\* 0 <= s <= maxMigrationShare, for all parameters the data model allows.
C2_ShareWithinBounds ==
  phase = "shared" =>
    \A h \in ShareHorizons :
      /\ Ge(shareCall[1].share[h], Zero)
      /\ Le(shareCall[1].share[h], input.behavioral.maxMigrationShare)

\* C3: computeMigrationShare returns exactly 0 when additionalTaxPerFiler <= 0,
\* for every model type and horizon, and a cohort of runModel whose additional
\* tax is <= 0 has migrationShare 0 and migrationLoss 0.
C3_ZeroShareWithoutTaxIncrease ==
  /\ (phase = "shared" /\ Le(shareCall[1].additionalTaxPerFiler, Zero))
       => \A h \in ShareHorizons : shareCall[1].share[h] = Zero
  /\ phase = "ran" =>
       \A j \in 1..Len(output[1].cohortResults) :
         LET r == output[1].cohortResults[j]
         IN Le(r.additionalTaxPerFiler, Zero)
              => r.migrationShare = Zero /\ r.migrationLoss = Zero

\* a run under a migrating model in which some cohort gets a tax cut
C3_Witness ==
  /\ phase = "ran"
  /\ input.behavioral.model = "hybrid"
  /\ \E j \in 1..Len(output[1].cohortResults) :
       /\ Lt(output[1].cohortResults[j].additionalTaxPerFiler, Zero)
       /\ output[1].cohortResults[j].migrationLoss = Zero

\* C4: with behavioral.model = 'none' computeMigrationShare returns 0 for every
\* additional tax, and runModel yields totalBehavioralLoss = 0 and
\* netRevenueChange = totalMechanicalGain.
C4_StaticModelHasNoLoss ==
  input.behavioral.model = "none" =>
    /\ phase = "shared" => \A h \in ShareHorizons : shareCall[1].share[h] = Zero
    /\ phase = "ran" =>
         /\ output[1].totalBehavioralLoss = Zero
         /\ output[1].netRevenueChange = output[1].totalMechanicalGain

\* a static run of a policy that raises revenue
C4_Witness ==
  /\ phase = "ran"
  /\ input.behavioral.model = "none"
  /\ Gt(output[1].totalMechanicalGain, Zero)

\* C5 (as claimed): for fixed tax, income and parameters with year1Share <=
\* year3Share <= year5Share, share(horizon 5) >= share(horizon 3) >=
\* share(horizon 1).
C5_ShareGrowsWithHorizon ==
  (/\ phase = "shared"
   /\ Le(input.behavioral.year1Share, input.behavioral.year3Share)
   /\ Le(input.behavioral.year3Share, input.behavioral.year5Share))
    => /\ Ge(shareCall[1].share[5], shareCall[1].share[3])
       /\ Ge(shareCall[1].share[3], shareCall[1].share[1])

\* C6: a no-op policy (surchargeRate = 0, flatRateChange = 0, includeNyc =
\* false, the other fields arbitrary) yields totalMechanicalGain = 0,
\* totalBehavioralLoss = 0 and netRevenueChange = 0.
C6_NoOpPolicyChangesNothing ==
  (phase = "ran" /\ NoOpPolicy(input.policy)) =>
    /\ output[1].totalMechanicalGain = Zero
    /\ output[1].totalBehavioralLoss = Zero
    /\ output[1].netRevenueChange = Zero

\* a no-op run over cohorts, with a migrating model and a city surcharge set
C6_Witness ==
  /\ phase = "ran"
  /\ NoOpPolicy(input.policy)
  /\ Gt(input.policy.nycSurchargeRate, Zero)
  /\ input.behavioral.model = "hybrid"
  /\ Len(cohorts) = MaxCohorts

\* the points of a 50-step sweep of the default input at the 5-year horizon
DefaultSweep == steps = 50 /\ input.timeHorizon = 5

\* C7 (as claimed): on the embedded cohorts with the default hybrid parameters
\* and a 5-year horizon, the 2% surcharge and the small positive rates of the
\* sweep give totalMechanicalGain > 0 and 0 <= totalBehavioralLoss <
\* totalMechanicalGain.
C7_LossBelowGainAtSmallRates ==
  /\ (phase = "ran" /\ input.timeHorizon = 5) =>
       /\ Gt(output[1].totalMechanicalGain, Zero)
       /\ Ge(output[1].totalBehavioralLoss, Zero)
       /\ Lt(output[1].totalBehavioralLoss, output[1].totalMechanicalGain)
  /\ (phase \in {"curve", "curveDone"} /\ DefaultSweep) =>
       \A j \in 1..Len(points) :
         (Gt(points[j].surchargeRate, Zero) /\ Le(points[j].surchargeRate, Dec(2, -2)))
           => /\ Gt(points[j].mechanicalGain, Zero)
              /\ Ge(points[j].behavioralLoss, Zero)
              /\ Lt(points[j].behavioralLoss, points[j].mechanicalGain)

\* C8 (as claimed): in the default revenue curve the net revenue is
\* non-negative at low rates and negative from some swept rate (the tipping
\* point) on.
C8_NetTurnsNegativeAtHighRates ==
  (phase = "curveDone" /\ DefaultSweep) =>
    \E t \in 2..Len(points) :
      /\ \A j \in 1..(t - 1) : Ge(points[j].netRevenue, Zero)
      /\ \A j \in t..Len(points) : Lt(points[j].netRevenue, Zero)

\* C9: with surchargeThreshold > 0 and every other input fixed, the mechanical
\* gain never decreases from one point of generateRevenueCurve to the next.
C9_MechanicalGainMonotone ==
  Gt(input.policy.surchargeThreshold, Zero) =>
    \A j \in 2..Len(points) :
      Ge(points[j].mechanicalGain, points[j - 1].mechanicalGain)

\* a finished sweep whose gain rises although the flat rate is cut
C9_Witness ==
  /\ phase = "curveDone"
  /\ Lt(input.policy.flatRateChange, Zero)
  /\ Gt(points[Len(points)].mechanicalGain, points[1].mechanicalGain)

\* C10 (as claimed): over cohorts with non-negative liabilities and parameters
\* within the data-model invariants every cohort's migrationLoss is >= 0 and
\* totalBehavioralLoss is >= 0.
C10_LossNonNegative ==
  phase = "ran" =>
    /\ \A j \in 1..Len(output[1].cohortResults) :
         Ge(output[1].cohortResults[j].migrationLoss, Zero)
    /\ Ge(output[1].totalBehavioralLoss, Zero)

\* the cohorts of the list lying fully inside the band of the input
FullyInside(c) ==
  Ge(c.agiMin, input.middleIncomeMin) /\ Le(c.agiMax, input.middleIncomeMax)

\* the cohorts of the list overlapping the band of the input
Overlapping(c) ==
  Lt(c.agiMin, input.middleIncomeMax) /\ Gt(c.agiMax, input.middleIncomeMin)

\* the sum of the filer counts of the cohorts of the list satisfying P
RECURSIVE FilersFrom(_, _, _)
FilersFrom(P(_), j, acc) ==
  IF j > Len(cohorts) THEN acc
  ELSE FilersFrom(P, j + 1,
                  IF P(cohorts[j]) THEN Add(acc, cohorts[j].filerCount) ELSE acc)

\* C11: with netRevenueChange >= 0 computeMiddleIncomeOffset returns null
\* rateIncrease, perFiler and pctIncome, and filerCount = the sum of filerCount
\* over exactly the cohorts fully inside the band.
C11_NoShortfallCountsInsideCohorts ==
  (phase = "offset" /\ Ge(offsetCall[1].netRevenueChange, Zero)) =>
    /\ offsetCall[1].result.rateIncrease = Null
    /\ offsetCall[1].result.perFiler = Null
    /\ offsetCall[1].result.pctIncome = Null
    /\ offsetCall[1].result.filerCount = FilersFrom(FullyInside, 1, Zero)

\* a call without shortfall where some cohorts are inside the band and others
\* only overlap it
C11_Witness ==
  /\ phase = "offset"
  /\ Gt(offsetCall[1].netRevenueChange, Zero)
  /\ Gt(offsetCall[1].result.filerCount, Zero)
  /\ \E j \in 1..Len(cohorts) : Overlapping(cohorts[j]) /\ ~FullyInside(cohorts[j])

\* a value that is a finite number greater than zero (not null, NaN or infinite)
PositiveNumber(a) == IsFin(a) /\ a.m > 0

\* C12 (as claimed): with netRevenueChange < 0 and a band [min, max) that
\* overlaps at least one cohort, computeMiddleIncomeOffset returns a positive
\* finite rateIncrease and perFiler, also when the overlapped cohort is the
\* unbounded top cohort or the band itself is unbounded.
C12_ShortfallGivesPositiveRate ==
  (/\ phase = "offset"
   /\ Lt(offsetCall[1].netRevenueChange, Zero)
   /\ Lt(input.middleIncomeMin, input.middleIncomeMax)
   /\ \E j \in 1..Len(cohorts) : Overlapping(cohorts[j]))
    => /\ PositiveNumber(offsetCall[1].result.rateIncrease)
       /\ PositiveNumber(offsetCall[1].result.perFiler)

\* the fraction of [c.agiMin, c.agiMax) that lies in the band of the input:
\* 1 for a cohort fully inside, else the overlap over the width, within [0, 1]
BandFraction(c) ==
  IF FullyInside(c) THEN One
  ELSE MathMax(Zero, MathMin(One,
         Div(Sub(MathMin(c.agiMax, input.middleIncomeMax),
                 MathMax(c.agiMin, input.middleIncomeMin)),
             Sub(c.agiMax, c.agiMin))))

\* the sum over the overlapping cohorts of the quantity Q prorated by the
\* fraction of the cohort in the band
RECURSIVE ProratedFrom(_, _, _)
ProratedFrom(Q(_), j, acc) ==
  IF j > Len(cohorts) THEN acc
  ELSE ProratedFrom(Q, j + 1,
                    IF Overlapping(cohorts[j])
                    THEN Add(acc, Mul(Q(cohorts[j]), BandFraction(cohorts[j])))
                    ELSE acc)

ProratedAgi == ProratedFrom(LAMBDA c : c.totalAgi, 1, Zero)
ProratedFilerCount == ProratedFrom(LAMBDA c : c.filerCount, 1, Zero)

\* a and b equal up to the rounding of one operation (relative error 10^-6)
Close(a, b) ==
  /\ IsFin(a) /\ IsFin(b)
  /\ Le(MathAbs(Sub(a, b)), Mul(MathAbs(b), Dec(1, -6)))

\* C13 (as claimed): with netRevenueChange < 0 every overlapping cohort is
\* prorated by a fraction in [0, 1] that is 1 for a cohort fully inside the
\* band, rateIncrease = |net| / proratedAgi, perFiler = |net| /
\* proratedFilerCount, and rateIncrease applied to the prorated AGI raises the
\* shortfall.
C13_OffsetProratesAndBreaksEven ==
  (/\ phase = "offset"
   /\ Lt(offsetCall[1].netRevenueChange, Zero)
   /\ Lt(input.middleIncomeMin, input.middleIncomeMax)
   /\ ProratedAgi # Zero /\ ProratedFilerCount # Zero)
    => /\ \A j \in 1..Len(cohorts) :
            Overlapping(cohorts[j]) =>
              /\ Ge(prorate(cohorts[j], input.middleIncomeMin, input.middleIncomeMax), Zero)
              /\ Le(prorate(cohorts[j], input.middleIncomeMin, input.middleIncomeMax), One)
              /\ FullyInside(cohorts[j]) =>
                   prorate(cohorts[j], input.middleIncomeMin, input.middleIncomeMax) = One
       /\ offsetCall[1].result.rateIncrease
            = Div(MathAbs(offsetCall[1].netRevenueChange), ProratedAgi)
       /\ offsetCall[1].result.perFiler
            = Div(MathAbs(offsetCall[1].netRevenueChange), ProratedFilerCount)
       /\ Close(Mul(offsetCall[1].result.rateIncrease, ProratedAgi),
                MathAbs(offsetCall[1].netRevenueChange))

\* the offset fields of a degenerate band: three nulls and a filer count of 0
DegenerateOffset(rateIncrease, perFiler, pctIncome, filerCount) ==
  /\ rateIncrease = Null
  /\ perFiler = Null
  /\ pctIncome = Null
  /\ filerCount = Zero

\* C14: with netRevenueChange < 0 and a zero prorated AGI or prorated filer
\* count over the band, computeMiddleIncomeOffset returns null rateIncrease,
\* perFiler and pctIncome with filerCount 0, and runModel hands these fields
\* on unchanged.
C14_DegenerateBandGivesNulls ==
  LET degenerate == ProratedAgi = Zero \/ ProratedFilerCount = Zero
  IN /\ (phase = "offset" /\ Lt(offsetCall[1].netRevenueChange, Zero) /\ degenerate)
          => DegenerateOffset(offsetCall[1].result.rateIncrease,
                              offsetCall[1].result.perFiler,
                              offsetCall[1].result.pctIncome,
                              offsetCall[1].result.filerCount)
     /\ (phase = "ran" /\ Lt(output[1].netRevenueChange, Zero) /\ degenerate)
          => DegenerateOffset(output[1].middleIncomeOffset,
                              output[1].middleIncomeOffsetPerFiler,
                              output[1].middleIncomeOffsetPctIncome,
                              output[1].middleIncomeFilerCount)

\* a run with a shortfall over cohorts none of which the band overlaps
C14_Witness ==
  /\ phase = "ran"
  /\ Lt(output[1].netRevenueChange, Zero)
  /\ Len(cohorts) > 0
  /\ Lt(input.middleIncomeMin, input.middleIncomeMax)
  /\ \A j \in 1..Len(cohorts) : ~Overlapping(cohorts[j])
  /\ output[1].middleIncomeOffset = Null
  /\ output[1].middleIncomeFilerCount = Zero

\* the sum over the brackets with min < income of rate * (min(income, max) - min)
RECURSIVE BracketSumFrom(_, _, _, _)
BracketSumFrom(income, brackets, j, acc) ==
  IF j > Len(brackets) THEN acc
  ELSE BracketSumFrom(income, brackets, j + 1,
         IF Lt(brackets[j].min, income)
         THEN Add(acc, Mul(brackets[j].rate,
                           Sub(MathMin(income, brackets[j].max), brackets[j].min)))
         ELSE acc)

\* C15: computeTax(income, brackets) is the sum over the brackets with
\* min < income of rate * (min(income, max) - min); it is 0 for income <= 0
\* and never negative.
C15_TaxIsSumOverBrackets ==
  (phase = "taxed" /\ taxCall[1].fn = "computeTax") =>
    \A inc \in Incomes :
      /\ taxCall[1].tax[inc] = BracketSumFrom(inc, taxCall[1].brackets, 1, Zero)
      /\ Le(inc, Zero) => taxCall[1].tax[inc] = Zero
      /\ Ge(taxCall[1].tax[inc], Zero)

\* the state schedule applied to an income that spans five brackets
C15_Witness ==
  /\ phase = "taxed"
  /\ taxCall[1].fn = "computeTax"
  /\ taxCall[1].brackets = NYS_BRACKETS
  /\ taxCall[1].tax[N(100000)] = Dec(543175, -2)

\* C16: computeTax is monotone non-decreasing in income, for NYS_BRACKETS and
\* NYC_BRACKETS in particular.
C16_TaxIsMonotone ==
  (phase = "taxed" /\ taxCall[1].fn = "computeTax") =>
    \A a \in Incomes, b \in Incomes :
      Le(a, b) => Le(taxCall[1].tax[a], taxCall[1].tax[b])

\* the city schedule: a higher income in the top bracket owes strictly more
C16_Witness ==
  /\ phase = "taxed"
  /\ taxCall[1].fn = "computeTax"
  /\ taxCall[1].brackets = NYC_BRACKETS
  /\ Lt(Zero, taxCall[1].tax[N(50000)])
  /\ Lt(taxCall[1].tax[N(50000)], taxCall[1].tax[N(100000)])

\* C17: computeSurcharge is 0 for income <= threshold and
\* rate * (income - threshold) above it; for rate >= 0 it is monotone
\* non-decreasing in income.
C17_SurchargeAboveThreshold ==
  (phase = "taxed" /\ taxCall[1].fn = "computeSurcharge") =>
    /\ \A inc \in Incomes :
         taxCall[1].tax[inc] =
           IF Le(inc, taxCall[1].threshold) THEN Zero
           ELSE Mul(taxCall[1].rate, Sub(inc, taxCall[1].threshold))
    /\ Ge(taxCall[1].rate, Zero) =>
         \A a \in Incomes, b \in Incomes :
           Le(a, b) => Le(taxCall[1].tax[a], taxCall[1].tax[b])

\* a 2% surcharge above $1M: nothing at the threshold, $20,000 on $2M
C17_Witness ==
  /\ phase = "taxed"
  /\ taxCall[1].fn = "computeSurcharge"
  /\ taxCall[1].rate = Dec(2, -2)
  /\ taxCall[1].threshold = N(1000000)
  /\ taxCall[1].tax[N(1000000)] = Zero
  /\ taxCall[1].tax[N(2000000)] = N(20000)

\* C18: for every cohort result of runModel, migrationLoss =
\* (filerCount * migrationShare) * (existingTaxPerFiler + additionalTaxPerFiler)
\* with existingTaxPerFiler = (nysLiability + nycLiability) / filerCount,
\* mechanicalGain = additionalTaxPerFiler * filerCount, and
\* netRevenueChange = mechanicalGain - migrationLoss.
C18_CohortLossAndGain ==
  phase = "ran" =>
    \A j \in 1..Len(output[1].cohortResults) :
      LET r == output[1].cohortResults[j]
          c == cohorts[j]
      IN /\ r.cohort = c
         /\ r.migrationLoss =
              Mul(Mul(c.filerCount, r.migrationShare),
                  Add(Div(Add(c.nysLiability, c.nycLiability), c.filerCount),
                      r.additionalTaxPerFiler))
         /\ r.mechanicalGain = Mul(c.filerCount, r.additionalTaxPerFiler)
         /\ r.netRevenueChange = Sub(r.mechanicalGain, r.migrationLoss)

\* a cohort that pays more, part of which leaves
C18_Witness ==
  /\ phase = "ran"
  /\ \E j \in 1..Len(output[1].cohortResults) :
       /\ Gt(output[1].cohortResults[j].additionalTaxPerFiler, Zero)
       /\ Gt(output[1].cohortResults[j].migrationShare, Zero)
       /\ Gt(output[1].cohortResults[j].migrationLoss, Zero)
       /\ Gt(output[1].cohortResults[j].netRevenueChange, Zero)

\* the state part of the additional tax: the flat change on the full average
\* AGI plus the state surcharge
NysTax(avgAgi, p) ==
  Add(Mul(p.flatRateChange, avgAgi),
      computeSurcharge(avgAgi, p.surchargeRate, p.surchargeThreshold))

\* the city part: the city surcharge, counted only when includeNyc is set
NycTax(avgAgi, p) ==
  IF p.includeNyc
  THEN computeSurcharge(avgAgi, p.nycSurchargeRate, p.nycSurchargeThreshold)
  ELSE Zero

\* city surcharge settings other than those of the run
OtherNycSettings ==
  {[rate |-> r, threshold |-> t] : r \in {Zero, Dec(5, -2)}, t \in {Zero, N(250000)}}

C20_AdditionalTaxFormula ==
  (phase = "taxed" /\ taxCall[1].fn = "computeAdditionalTaxPerFiler"
     /\ ~input.policy.includeNyc) =>
    \A avgAgi \in Incomes :
      taxCall[1].tax[avgAgi] =
        Add(Mul(input.policy.surchargeRate,
                MathMax(Zero, Sub(avgAgi, input.policy.surchargeThreshold))),
            Mul(input.policy.flatRateChange, avgAgi))

\* C21 (as claimed): with maxMigrationShare >= baseMigrationRate and
\* migrationElasticity >= 0, computeMigrationShare is non-decreasing in
\* additionalTaxPerFiler, the other inputs fixed; under the threshold model a
\* burden above thresholdDollars yields a share at least as large as any
\* burden below it.
C21_ShareMonotoneInTax ==
  (/\ phase = "swept"
   /\ Ge(input.behavioral.maxMigrationShare, input.behavioral.baseMigrationRate)
   /\ Ge(input.behavioral.migrationElasticity, Zero))
    => \A a \in TaxArgs, b \in TaxArgs :
         Le(a, b) => Le(shareCall[1].share[a], shareCall[1].share[b])

\* clamp(v, lo, hi)
Clamp(v, lo, hi) == IF Lt(v, lo) THEN lo ELSE IF Gt(v, hi) THEN hi ELSE v

\* the raw share of the three migrating models, as documented
DocumentedRawShare(tax, agi, p) ==
  CASE p.model = "elasticity" ->
         Add(p.baseMigrationRate, Mul(p.migrationElasticity, Div(tax, agi)))
    [] p.model = "threshold" ->
         IF Lt(tax, p.thresholdDollars) THEN p.baseMigrationRate
         ELSE IF Ge(tax, Mul(N(2), p.thresholdDollars)) THEN p.maxMigrationShare
         ELSE Add(p.baseMigrationRate,
                  Mul(Sub(p.maxMigrationShare, p.baseMigrationRate),
                      Div(Sub(tax, p.thresholdDollars), p.thresholdDollars)))
    [] OTHER ->
         Add(p.baseMigrationRate,
             Mul(Sub(p.maxMigrationShare, p.baseMigrationRate),
                 Div(One, Add(One, MathExp(Neg(Div(Sub(tax, p.thresholdDollars),
                                                   p.logisticSlope)))))))

\* year1Share / year3Share / year5Share for horizons 1 / 3 / 5, otherwise 1
DocumentedTimeScale(h, p) ==
  IF h = 1 THEN p.year1Share
  ELSE IF h = 3 THEN p.year3Share
  ELSE IF h = 5 THEN p.year5Share
  ELSE One

EvalsAgree ==
  /\ \A a \in 1..Len(output), b \in 1..Len(output) :
       (output[a].fn = output[b].fn /\ output[a].args = output[b].args)
         => output[a].result = output[b].result
  /\ \A k \in 1..Len(points) :
       points[k] = revenueCurvePoint(input, maxRate, steps, k - 1, cohorts)

AscendingContiguous(list, Lo(_), Hi(_)) ==
  /\ \A j \in 1..Len(list) : Lt(Lo(list[j]), Hi(list[j]))
  /\ \A j \in 1..(Len(list) - 1) : Hi(list[j]) = Lo(list[j + 1])

\* a rate or share between 0 and 1
UnitRate(a) == Ge(a, Zero) /\ Le(a, One)

\* C24: BASELINE_COHORTS has exactly ten cohorts, each with filerCount > 0,
\* totalAgi > 0 and 0 <= nycResidentShare <= 1, whose ranges are ascending
\* and contiguous from 0 to unbounded; NYS_BRACKETS and NYC_BRACKETS are
\* ascending and contiguous; the default behavioral parameters have all rates
\* in [0, 1] with year1Share <= year3Share <= year5Share.
C24_ReferenceDataInvariants ==
  /\ cohorts = BASELINE_COHORTS
  /\ Len(cohorts) = 10
  /\ \A j \in 1..Len(cohorts) :
       /\ Gt(cohorts[j].filerCount, Zero)
       /\ Gt(cohorts[j].totalAgi, Zero)
       /\ UnitRate(cohorts[j].nycResidentShare)
  /\ AscendingContiguous(cohorts, LAMBDA c : c.agiMin, LAMBDA c : c.agiMax)
  /\ cohorts[1].agiMin = Zero
  /\ cohorts[Len(cohorts)].agiMax = PosInf
  /\ AscendingContiguous(NYS_BRACKETS, LAMBDA b : b.min, LAMBDA b : b.max)
  /\ AscendingContiguous(NYC_BRACKETS, LAMBDA b : b.min, LAMBDA b : b.max)
  /\ input.behavioral = DEFAULT_BEHAVIORAL_PARAMS
  /\ UnitRate(input.behavioral.baseMigrationRate)
  /\ UnitRate(input.behavioral.maxMigrationShare)
  /\ UnitRate(input.behavioral.replacementRate)
  /\ UnitRate(input.behavioral.year1Share)
  /\ UnitRate(input.behavioral.year3Share)
  /\ UnitRate(input.behavioral.year5Share)
  /\ Le(input.behavioral.year1Share, input.behavioral.year3Share)
  /\ Le(input.behavioral.year3Share, input.behavioral.year5Share)

\* the embedded table and both embedded schedules in use
C24_Witness ==
  /\ phase = "taxed"
  /\ cohorts = BASELINE_COHORTS
  /\ input.behavioral = DEFAULT_BEHAVIORAL_PARAMS
  /\ taxCall[1].fn = "computeTax"
  /\ taxCall[1].brackets = NYC_BRACKETS
  /\ Gt(taxCall[1].tax[N(50000)], Zero)

\* the point of the curve at a rate: the totals of runModel on the base input
\* with only policy.surchargeRate replaced
PointAtRate(rate, out) ==
  [surchargeRate |-> rate,
   mechanicalGain |-> out.totalMechanicalGain,
   behavioralLoss |-> out.totalBehavioralLoss,
   netRevenue |-> out.netRevenueChange]

\* C25: generateRevenueCurve(baseInput, maxRate, steps) with steps >= 1
\* returns steps + 1 points in order, point i carrying surchargeRate =
\* maxRate * i / steps and the totals of runModel on baseInput with only
\* policy.surchargeRate replaced by that rate; the first point has
\* surchargeRate 0 and, for a base input with flatRateChange = 0 and no NYC
\* surcharge, net revenue 0.
C25_CurveHasOnePointPerStep ==
  (phase = "curveDone" /\ steps >= 1) =>
    /\ Len(points) = steps + 1
    /\ \A k \in 1..Len(points) :
         points[k] =
           PointAtRate(Div(Mul(maxRate, N(k - 1)), N(steps)),
                       runModel([policy |-> [surchargeRate |-> Div(Mul(maxRate, N(k - 1)), N(steps)),
                                             surchargeThreshold |-> input.policy.surchargeThreshold,
                                             flatRateChange |-> input.policy.flatRateChange,
                                             includeNyc |-> input.policy.includeNyc,
                                             nycSurchargeRate |-> input.policy.nycSurchargeRate,
                                             nycSurchargeThreshold |-> input.policy.nycSurchargeThreshold],
                                 behavioral |-> input.behavioral,
                                 timeHorizon |-> input.timeHorizon,
                                 middleIncomeMin |-> input.middleIncomeMin,
                                 middleIncomeMax |-> input.middleIncomeMax],
                                cohorts))
    /\ points[1].surchargeRate = Zero
    /\ (/\ input.policy.flatRateChange = Zero
        /\ (~input.policy.includeNyc \/ input.policy.nycSurchargeRate = Zero))
         => points[1].netRevenue = Zero

\* a finished sweep that starts at zero net revenue and moves away from it
C25_Witness ==
  /\ phase = "curveDone"
  /\ Len(points) = steps + 1
  /\ input.policy.flatRateChange = Zero
  /\ points[1].netRevenue = Zero
  /\ Gt(points[2].surchargeRate, Zero)
  /\ points[2].netRevenue # Zero

\* C26: runScenarios returns four results in the order static, conservative,
\* moderate, aggressive; all four have the totalMechanicalGain and
\* baselineRevenue of runModel(baseInput); the static scenario has
\* totalBehavioralLoss = 0; the moderate scenario equals runModel(baseInput);
\* for the default input the behavioral loss is ordered static <=
\* conservative <= moderate <= aggressive.
C26_ScenariosAreFourOrderedRuns ==
  phase = "scenarios" =>
    /\ Len(output[1]) = 4
    /\ output[1][1].label = "No behavioral response (static)"
    /\ output[1][2].label = "Conservative response (Young & Varner)"
    /\ output[1][3].label = "Moderate response (default)"
    /\ output[1][4].label = "Aggressive response (Moretti & Wilson)"
    /\ \A k \in 1..4 :
         /\ output[1][k].output.totalMechanicalGain =
              runModel(input, cohorts).totalMechanicalGain
         /\ output[1][k].output.baselineRevenue =
              runModel(input, cohorts).baselineRevenue
    /\ output[1][1].output.totalBehavioralLoss = Zero
    /\ output[1][3].output = runModel(input, cohorts)
    /\ (input = DEFAULT_INPUT /\ cohorts = BASELINE_COHORTS) =>
         /\ Le(output[1][1].output.totalBehavioralLoss,
               output[1][2].output.totalBehavioralLoss)
         /\ Le(output[1][2].output.totalBehavioralLoss,
               output[1][3].output.totalBehavioralLoss)
         /\ Le(output[1][3].output.totalBehavioralLoss,
               output[1][4].output.totalBehavioralLoss)

\* the scenarios of the default input on the embedded table, the losses
\* strictly apart
C26_Witness ==
  /\ phase = "scenarios"
  /\ input = DEFAULT_INPUT
  /\ cohorts = BASELINE_COHORTS
  /\ Gt(output[1][2].output.totalBehavioralLoss, Zero)
  /\ Lt(output[1][2].output.totalBehavioralLoss,
        output[1][3].output.totalBehavioralLoss)
  /\ Lt(output[1][3].output.totalBehavioralLoss,
        output[1][4].output.totalBehavioralLoss)

\* C27 (as claimed): the tipping point of RevenueChart is the first point of
\* the curve whose net revenue is negative; every swept point at or above the
\* marked tipping rate has negative net revenue and every swept point below
\* it has non-negative net revenue; when no point is negative no tipping
\* point is shown.
C27_NetNegativeAboveTippingRate ==
  phase = "charted" =>
    IF \E k \in 1..Len(points) : Lt(points[k].netRevenue, Zero)
    THEN /\ output[1].tippingRate # Null
         /\ \A k \in 1..Len(points) :
              /\ Ge(points[k].surchargeRate, output[1].tippingRate)
                   => Lt(points[k].netRevenue, Zero)
              /\ Lt(points[k].surchargeRate, output[1].tippingRate)
                   => Ge(points[k].netRevenue, Zero)
    ELSE output[1].tippingRate = Null

\* the input with another migration elasticity
WithElasticity(in, el) == [in EXCEPT !.behavioral.migrationElasticity = el]

ShareFloor(p, h) ==
  MathMin(p.maxMigrationShare,
          Mul(Mul(p.baseMigrationRate, DocumentedTimeScale(h, p)),
              Sub(One, p.replacementRate)))

\* C29 (as claimed): for every model other than 'none' with maxMigrationShare
\* >= baseMigrationRate, any strictly positive additionalTaxPerFiler yields a
\* share of at least min(maxMigrationShare, baseMigrationRate * timeScale *
\* (1 - replacementRate)), while additionalTaxPerFiler = 0 yields 0; a cohort
\* with a positive additional tax loses at least that share of its entire
\* existing liability.
C29_ShareJumpsAtZero ==
  (/\ input.behavioral.model # "none"
   /\ Ge(input.behavioral.maxMigrationShare, input.behavioral.baseMigrationRate))
    => /\ phase = "shared" =>
            \A h \in ShareHorizons :
              /\ Gt(shareCall[1].additionalTaxPerFiler, Zero)
                   => Ge(shareCall[1].share[h], ShareFloor(input.behavioral, h))
              /\ shareCall[1].additionalTaxPerFiler = Zero
                   => shareCall[1].share[h] = Zero
       /\ phase = "ran" =>
            \A j \in 1..Len(cohorts) :
              Gt(output[1].cohortResults[j].additionalTaxPerFiler, Zero)
                => Ge(output[1].cohortResults[j].migrationLoss,
                      Mul(ShareFloor(input.behavioral, input.timeHorizon),
                          Add(cohorts[j].nysLiability, cohorts[j].nycLiability)))

\* the filer count of the band as the shortfall branch prorates it, unrounded
UnroundedFilerCount ==
  FoldAdd([j \in 1..Len(SelectSeq(cohorts, Overlapping)) |->
             Mul(SelectSeq(cohorts, Overlapping)[j].filerCount,
                 prorate(SelectSeq(cohorts, Overlapping)[j],
                         input.middleIncomeMin, input.middleIncomeMax))])

\* a whole number
IsInteger(a) == IsFin(a) /\ a.e >= 0

\* C30 (as claimed): whenever computeMiddleIncomeOffset returns non-null
\* fields, pctIncome equals rateIncrease, the reported filerCount is the
\* prorated filer count rounded to the nearest integer, and perFiler is
\* computed from the unrounded count.
C30_PctIncomeIsRateIncrease ==
  (phase = "offset" /\ offsetCall[1].result.rateIncrease # Null) =>
    /\ offsetCall[1].result.perFiler # Null
    /\ offsetCall[1].result.pctIncome # Null
    /\ Close(offsetCall[1].result.pctIncome, offsetCall[1].result.rateIncrease)
    /\ IsInteger(offsetCall[1].result.filerCount)
    /\ Le(MathAbs(Sub(offsetCall[1].result.filerCount, UnroundedFilerCount)),
          Dec(5, -1))
    /\ offsetCall[1].result.perFiler =
         Div(MathAbs(offsetCall[1].netRevenueChange), UnroundedFilerCount)

=============================================================================
